---- MODULE Spec2Model ----
(***************************************************************************)
(* The job store (JobProvider, src/unnamed/part_001) on top of the remote  *)
(* gateway (jobService, src/unnamed/part_000 lines 608-986) and the        *)
(* ProfilePage handlers that call the store (part_000 lines 97-139).       *)
(*                                                                         *)
(* Every async function is cut at its awaits: the code before the first    *)
(* await is the Dispatch action, the code after an await is a Resolve      *)
(* action.  The backend is not part of the sources; it answers a request   *)
(* when the request is issued and the answer waits in the operation        *)
(* record until the runtime resumes the awaiting function, so responses    *)
(* of operations in flight are delivered in any order.                     *)
(***************************************************************************)
EXTENDS Integers, Sequences, FiniteSets, TLC

\* ---------------------------------------------------------------- bounds
MaxOps == 2          \* operations dispatched after the mount refresh
MaxInflight == 2     \* operations in flight at once
MaxClock == 2        \* readings of Date.now() range over 1..MaxClock

\* ------------------------------------------------------- program constants
PopularCount == 3    \* allJobs.slice(0, 3)

NoUser == "none"
Texts == {"x", "y"}
TargetIds == {"A", "B"}
FreshJobIds == <<"E", "F", "G", "H">>

\* ------------------------------------------------------------ entity model
Job(id, owner) ==
  [id |-> id, userId |-> owner, title |-> "t0", cpresent |-> TRUE, comments |-> <<>>]

\* Identifiers: `temp-${Date.now()}`, `temp-reply-${Date.now()}`, uuidv4(),
\* and the identifiers the backend assigns.
TempId(t) == [k |-> "temp", v |-> t]
TempReplyId(t) == [k |-> "temp-reply", v |-> t]
UuidId(n) == [k |-> "uuid", v |-> n]
SrvId(n) == [k |-> "srv", v |-> n]
NoId == [k |-> "none", v |-> 0]

isTemporary(id) == id.k \in {"temp", "temp-reply"}

Comment(id, text) == [id |-> id, text |-> text, replies |-> <<>>]
Reply(id, text) == [id |-> id, text |-> text]

\* ----------------------------------------------------------- list helpers
Ids(s) == {s[i].id : i \in DOMAIN s}

IdSeq(s) == [i \in DOMAIN s |-> s[i].id]

Min(a, b) == IF a < b THEN a ELSE b

\* Array.prototype.slice(0, n)
Slice(s, n) == SubSeq(s, 1, Min(n, Len(s)))

\* job.comments || []
CommentsOrEmpty(job) == IF job.cpresent THEN job.comments ELSE <<>>

\* { ...job, comments: updatedComments } with a defined array
WithComments(job, cs) == [job EXCEPT !.cpresent = TRUE, !.comments = cs]

\* { ...job, comments: job.comments?.f(...) }: an absent sequence stays
\* absent; cs is the value f gives for the present one
WithOptComments(job, cs) ==
  IF job.cpresent THEN [job EXCEPT !.comments = cs] ELSE job

\* the payload of a response that omits the comments field
OmitComments(job) == [job EXCEPT !.cpresent = FALSE, !.comments = <<>>]

\* ------------------------------------------- the store's list transforms
\* addComment: prevJobs.map(job => job.id === jobId
\*   ? { ...job, comments: [...(job.comments || []), tempComment] } : job)
AppendTempComment(js, jobId, c) ==
  [i \in DOMAIN js |->
    IF js[i].id = jobId
    THEN WithComments(js[i], Append(CommentsOrEmpty(js[i]), c))
    ELSE js[i]]

\* addComment after the await: filter the temporary identifier out, append
ReconcileComment(js, jobId, tmp, c) ==
  [i \in DOMAIN js |->
    IF js[i].id = jobId
    THEN WithComments(js[i],
           Append(SelectSeq(CommentsOrEmpty(js[i]), LAMBDA x : x.id # tmp), c))
    ELSE js[i]]

\* addReply: job.comments?.map(comment => comment.id === commentId
\*   ? { ...comment, replies: [...(comment.replies || []), tempReply] } : comment)
AppendTempReply(js, jobId, cid, r) ==
  [i \in DOMAIN js |->
    IF js[i].id = jobId
    THEN WithOptComments(js[i],
           [k \in DOMAIN js[i].comments |->
             IF js[i].comments[k].id = cid
             THEN [js[i].comments[k] EXCEPT !.replies = Append(@, r)]
             ELSE js[i].comments[k]])
    ELSE js[i]]

ReconcileReply(js, jobId, cid, tmp, r) ==
  [i \in DOMAIN js |->
    IF js[i].id = jobId
    THEN WithOptComments(js[i],
           [k \in DOMAIN js[i].comments |->
             IF js[i].comments[k].id = cid
             THEN [js[i].comments[k] EXCEPT !.replies =
                     Append(SelectSeq(@, LAMBDA x : x.id # tmp), r)]
             ELSE js[i].comments[k]])
    ELSE js[i]]

\* deleteComment: every job, comments?.filter(comment => comment.id !== commentId)
RemoveComment(js, cid) ==
  [i \in DOMAIN js |->
    WithOptComments(js[i], SelectSeq(js[i].comments, LAMBDA c : c.id # cid))]

\* updateJob: prevJobs.map(job => job.id === jobId ? updatedJob : job)
ReplaceJob(js, jobId, updated) ==
  [i \in DOMAIN js |-> IF js[i].id = jobId THEN updated ELSE js[i]]

\* deleteJob: prevJobs.filter(job => job.id !== jobId)
RemoveJob(js, jobId) == SelectSeq(js, LAMBDA job : job.id # jobId)

\* getJobsByUser: allJobs.filter(job => job.userId === userId)
JobsOfUser(js, u) == SelectSeq(js, LAMBDA job : job.userId = u)

\* refreshJobs: allJobs.slice(0, 3)
Popular(js) == Slice(js, PopularCount)

\* ------------------------------------------------------------------ state
VARIABLES
  jobs, userJobs, filteredJobs, popularJobs, savedJobs, loading,  \* useState
  currentUser,   \* useAuth().currentUser, NoUser when logged out
  cache,         \* localStorage 'cachedJobs': <<>> when absent, else <<list>>
  storageFull,   \* localStorage.setItem throws (the quota is used up)
  clock,         \* the last reading of Date.now()
  ops,           \* the async calls in flight, each suspended at an await
  opCount,       \* calls dispatched so far
  srvJobs,       \* the backend's job list
  srvSeq,        \* comment and reply identifiers the backend has assigned
  srvCreated,    \* jobs the backend has created
  last           \* the call that took the most recent step, as it left it

vars == <<jobs, userJobs, filteredJobs, popularJobs, savedJobs, loading,
          currentUser, cache, storageFull, clock, ops, opCount, srvJobs, srvSeq,
          srvCreated, last>>

views == <<jobs, userJobs, filteredJobs, popularJobs, savedJobs>>

\* ------------------------------------------------------ operation records
\* Partial<JobType> as createJob reads it: "undef" is a missing field, ""
\* an empty string; budget is <<>> when undefined, else <<number>>.
NoData == [title |-> "undef", description |-> "undef", category |-> "undef",
           budget |-> <<>>]

JobDatas ==
  { [title |-> "t", description |-> "d", category |-> "c", budget |-> <<5>>],
    [title |-> "t", description |-> "d", category |-> "c", budget |-> <<0>>],
    [title |-> "t", description |-> "d", category |-> "c", budget |-> <<>>],
    [title |-> "undef", description |-> "d", category |-> "c", budget |-> <<5>>],
    [title |-> "", description |-> "d", category |-> "c", budget |-> <<5>>],
    [title |-> "t", description |-> "undef", category |-> "c", budget |-> <<5>>],
    [title |-> "t", description |-> "d", category |-> "undef", budget |-> <<5>>] }

BlankOp ==
  [n |-> 0, kind |-> "none", via |-> "store", step |-> "none", pc |-> "done",
   user |-> NoUser, jobId |-> "-", cid |-> NoId, text |-> "-", tmp |-> NoId,
   data |-> NoData, out |-> "none", got |-> "none", rjobs |-> <<>>, rcom |-> <<>>, rrep |-> <<>>,
   allJobs |-> <<>>, ok |-> 0, err |-> 0, info |-> 0, req |-> 0]

\* a call of `kind` made now: its closure holds the current render's user
NewOp(kind, via) ==
  [BlankOp EXCEPT !.n = opCount + 1, !.kind = kind, !.via = via,
                  !.user = currentUser]

CanDispatch == opCount < MaxOps /\ Cardinality(ops) < MaxInflight

\* Date.now() never goes back
NowChoices == {t \in {clock, clock + 1} : t <= MaxClock}

\* the call leaves the set of calls in flight
Finished(o) == [o EXCEPT !.pc = "done", !.rjobs = <<>>, !.allJobs = <<>>]

Suspend(o, o2) == /\ ops' = (ops \ {o}) \cup {o2}
                  /\ last' = o2

Complete(o, o2) == /\ ops' = ops \ {o}
                   /\ last' = Finished(o2)

\* ---------------------------------------------------------------- backend
\* What the backend answers: with success, without success, or not at all
\* (axios throws).  A job it sends carries no comments field when the job has
\* no comments.
Answers == {"ok", "nosuccess", "throw"}

SrvPayload(r, js) ==
  IF r = "ok"
  THEN [i \in DOMAIN js |->
         IF js[i].comments = <<>> THEN OmitComments(js[i]) ELSE js[i]]
  ELSE <<>>

SrvCommentIds == UNION {Ids(srvJobs[i].comments) : i \in DOMAIN srvJobs}

\* axios.get(`${API_URL}/jobs`) issued by call o and answered r
IssueGet(o, r) ==
  [o EXCEPT !.out = r, !.rjobs = SrvPayload(r, srvJobs), !.req = @ + 1]

\* ---------------------------------------------------------------- gateway
\* JSON.parse(JSON.stringify(list)): plain data survives, a field whose value
\* is undefined is dropped by stringify and is absent after parse
JsonJob(job) ==
  [id |-> job.id, userId |-> job.userId, title |-> job.title,
   cpresent |-> job.cpresent,
   comments |-> IF job.cpresent THEN job.comments ELSE <<>>]

JsonRoundTrip(js) == [i \in DOMAIN js |-> JsonJob(js[i])]

\* getAllJobs: { ...job, comments: job.comments || [] }
Normalize(job) == WithComments(job, CommentsOrEmpty(job))

\* getAllJobs with the cache never read: a failed fetch gives the empty list
GetAllJobsNoFallback(out, payload) ==
  IF out = "ok"
  THEN LET jobsWithComments == [i \in DOMAIN payload |-> Normalize(payload[i])]
       IN [jobs |-> jobsWithComments,
           cache |-> IF storageFull THEN cache ELSE <<JsonRoundTrip(jobsWithComments)>>,
           err |-> 0]
  ELSE [jobs |-> <<>>, cache |-> cache, err |-> IF out = "throw" THEN 1 ELSE 0]

\* jobService.getAllJobs once the request of a call has been answered:
\* the list it returns, the cache it leaves and the failure toasts it raises.
\* A failing localStorage.setItem is caught and logged.
GetAllJobs(out, payload) ==
  IF out = "ok"
  THEN LET jobsWithComments == [i \in DOMAIN payload |-> Normalize(payload[i])]
       IN [jobs |-> jobsWithComments,
           cache |-> IF storageFull THEN cache ELSE <<JsonRoundTrip(jobsWithComments)>>,
           err |-> 0]
  ELSE [jobs |-> IF cache # <<>> THEN JsonRoundTrip(cache[1]) ELSE <<>>,
        cache |-> cache,
        err |-> IF out = "throw" THEN 1 ELSE 0]

\* JS falsiness of a string field: !jobData.title
Falsy(v) == v \in {"undef", ""}

\* the check with the budget test left out
IncompleteDataBudgetUnchecked(d) ==
  Falsy(d.title) \/ Falsy(d.description) \/ Falsy(d.category)

\* jobService.createJob's check before the request
IncompleteData(d) ==
  Falsy(d.title) \/ Falsy(d.description) \/ Falsy(d.category) \/ d.budget = <<>>

\* ------------------------------------------------------------------- Init
\* The jobs the backend holds at mount; job A already has a comment.
InitSrvJobs ==
  << [Job("A", "u1") EXCEPT !.comments = <<Comment(SrvId(0), "x")>>],
     Job("B", "u2"), Job("C", "u1"), Job("D", "u2") >>

InitUsers == {"u1", NoUser}

\* whether localStorage refuses writes in this session
InitStorage == {FALSE}

\* The provider after its first render: empty lists, and the mount effect has
\* called refreshJobs, whose first request is in flight.
Init ==
  /\ jobs = <<>> /\ userJobs = <<>> /\ filteredJobs = <<>>
  /\ popularJobs = <<>> /\ savedJobs = <<>>
  /\ loading = TRUE
  /\ currentUser \in InitUsers
  /\ cache = <<>>
  /\ storageFull \in InitStorage
  /\ clock = 1
  /\ opCount = 0
  /\ srvJobs = InitSrvJobs
  /\ srvSeq = 0
  /\ srvCreated = 0
  /\ \E r \in Answers :
       LET o == IssueGet([BlankOp EXCEPT !.kind = "refresh", !.step = "refresh",
                                         !.pc = "fetch1", !.user = currentUser], r)
       IN ops = {o} /\ last = o

\* ------------------------------------------------------------ refreshJobs
\* a refreshJobs() that cancels the calls still in flight when it starts
RefreshJobsAbortingPrevious ==
  /\ CanDispatch
  /\ \E r \in Answers :
       LET o == IssueGet([NewOp("refresh", "store") EXCEPT
                            !.step = "refresh", !.pc = "fetch1"], r)
       IN /\ ops' = {o}
          /\ last' = o
  /\ loading' = TRUE
  /\ opCount' = opCount + 1
  /\ UNCHANGED <<jobs, userJobs, filteredJobs, popularJobs, savedJobs,
                 currentUser, storageFull, cache, clock, srvJobs, srvSeq, srvCreated>>

\* refreshJobs() up to its first await
RefreshJobs ==
  /\ CanDispatch
  /\ \E r \in Answers :
       LET o == IssueGet([NewOp("refresh", "store") EXCEPT
                            !.step = "refresh", !.pc = "fetch1"], r)
       IN /\ ops' = ops \cup {o}
          /\ last' = o
  /\ loading' = TRUE
  /\ opCount' = opCount + 1
  /\ UNCHANGED <<jobs, userJobs, filteredJobs, popularJobs, savedJobs,
                 currentUser, storageFull, cache, clock, srvJobs, srvSeq, srvCreated>>

\* what follows `await refreshJobs()` in the caller: createJob's toast
\* (part_001 101), handleUpdateJob's (part_000 106), handleDeleteJob's (127)
AfterRefresh(o) ==
  IF o.kind = "refresh" THEN o ELSE [o EXCEPT !.ok = @ + 1]

\* refreshJobs resumed after `await jobService.getAllJobs()`
RefreshFetched(o) ==
  /\ o \in ops /\ o.pc = "fetch1"
  /\ \E r \in Answers :
       LET g == GetAllJobs(o.out, o.rjobs)
           o1 == [o EXCEPT !.step = "fetched", !.err = @ + g.err,
                           !.got = o.out, !.allJobs = g.jobs]
       IN /\ jobs' = g.jobs
          /\ filteredJobs' = g.jobs
          /\ cache' = g.cache
          /\ IF o.user # NoUser
             THEN /\ Suspend(o, IssueGet([o1 EXCEPT !.pc = "fetch2"], r))
                  /\ UNCHANGED <<userJobs, savedJobs, popularJobs, loading>>
             ELSE /\ popularJobs' = Popular(g.jobs)
                  /\ loading' = FALSE
                  /\ Complete(o, AfterRefresh(o1))
                  /\ UNCHANGED <<userJobs, savedJobs>>
  /\ UNCHANGED <<currentUser, storageFull, clock, opCount, srvJobs, srvSeq, srvCreated>>

\* refreshJobs resumed after `await jobService.getJobsByUser(currentUser.id)`
RefreshUserFetched(o) ==
  /\ o \in ops /\ o.pc = "fetch2"
  /\ LET g == GetAllJobs(o.out, o.rjobs)
         o1 == [o EXCEPT !.step = "userFetched", !.err = @ + g.err]
     IN /\ cache' = g.cache
        /\ userJobs' = JobsOfUser(g.jobs, o.user)
        /\ savedJobs' = <<>>
        /\ popularJobs' = Popular(o.allJobs)
        /\ loading' = FALSE
        /\ Complete(o, AfterRefresh(o1))
  /\ UNCHANGED <<jobs, filteredJobs, currentUser, storageFull, clock, opCount, srvJobs,
                 srvSeq, srvCreated>>

\* a caller that goes on to `await refreshJobs()`
CallRefresh(o, o1, r) ==
  /\ loading' = TRUE
  /\ Suspend(o, IssueGet([o1 EXCEPT !.pc = "fetch1"], r))

\* -------------------------------------------------------------- createJob
\* the backend stores a new job of the requesting user, newest first
SrvCreate(user) == <<Job(FreshJobIds[srvCreated + 1], user)>> \o srvJobs

\* createJob(jobData) up to its first await: jobService.createJob validates
\* and either throws (toasts at part_000 720 and 763, the store's at
\* part_001 109) or posts the job
CreateJob(data) ==
  /\ CanDispatch
  /\ opCount' = opCount + 1
  /\ LET o0 == [NewOp("createJob", "store") EXCEPT !.data = data,
                                                  !.step = "createJob"]
     IN IF IncompleteData(data)
        THEN /\ last' = Finished([o0 EXCEPT !.err = 3])
             /\ UNCHANGED <<ops, srvJobs, srvCreated>>
        ELSE \E r \in Answers :
               /\ r = "ok" => currentUser # NoUser /\ srvCreated < Len(FreshJobIds)
               /\ srvJobs' = IF r = "ok" THEN SrvCreate(currentUser) ELSE srvJobs
               /\ srvCreated' = IF r = "ok" THEN srvCreated + 1 ELSE srvCreated
               /\ LET o == [o0 EXCEPT !.pc = "post", !.out = r, !.req = 1,
                                      !.rjobs = IF r = "ok"
                                                THEN <<SrvCreate(currentUser)[1]>>
                                                ELSE <<>>]
                  IN ops' = ops \cup {o} /\ last' = o
  /\ UNCHANGED <<jobs, userJobs, filteredJobs, popularJobs, savedJobs, loading,
                 currentUser, storageFull, cache, clock, srvSeq>>

\* createJob resumed after `await jobService.createJob(jobData)`
CreateJobResolved(o) ==
  /\ o \in ops /\ o.pc = "post"
  /\ IF o.out = "ok"
     THEN \E r \in Answers :
            CallRefresh(o, [o EXCEPT !.step = "created", !.ok = @ + 1,
                                     !.jobId = o.rjobs[1].id], r)
     ELSE /\ Complete(o, [o EXCEPT !.step = "createFailed",
                            !.err = @ + (IF o.out = "nosuccess" THEN 3 ELSE 2)])
          /\ UNCHANGED loading
  /\ UNCHANGED <<jobs, userJobs, filteredJobs, popularJobs, savedJobs,
                 currentUser, storageFull, cache, clock, opCount, srvJobs, srvSeq, srvCreated>>

\* -------------------------------------------------------------- updateJob
SrvUpdate(id) ==
  [i \in DOMAIN srvJobs |->
    IF srvJobs[i].id = id THEN [srvJobs[i] EXCEPT !.title = "t1"] ELSE srvJobs[i]]

SrvJob(js, id) == SelectSeq(js, LAMBDA job : job.id = id)

\* who may call: any consumer of the store with an id, or ProfilePage's
\* handleUpdateJob / handleDeleteJob for one of the listed jobs of the user
MayCall(jobId, via) ==
  IF via = "profile"
  THEN currentUser # NoUser /\ jobId \in Ids(JobsOfUser(userJobs, currentUser))
  ELSE jobId \in TargetIds

\* updateJob(jobId, jobData) up to its first await
UpdateJob(jobId, via) ==
  /\ CanDispatch
  /\ MayCall(jobId, via)
  /\ opCount' = opCount + 1
  /\ \E r \in Answers :
       /\ r = "ok" => jobId \in Ids(srvJobs)
       /\ srvJobs' = IF r = "ok" THEN SrvUpdate(jobId) ELSE srvJobs
       /\ LET o == [NewOp("updateJob", via) EXCEPT
                      !.step = "updateJob", !.pc = "put", !.jobId = jobId,
                      !.out = r, !.req = 1,
                      !.rjobs = SrvPayload(r, SrvJob(SrvUpdate(jobId), jobId))]
          IN ops' = ops \cup {o} /\ last' = o
  /\ UNCHANGED <<jobs, userJobs, filteredJobs, popularJobs, savedJobs, loading,
                 currentUser, storageFull, cache, clock, srvSeq, srvCreated>>

\* the toasts of jobService.updateJob and of the store's updateJob
UpdateToasts(o) ==
  IF o.out = "ok" THEN [o EXCEPT !.ok = @ + 2]
  ELSE IF o.out = "nosuccess" THEN [o EXCEPT !.err = @ + 1]
  ELSE [o EXCEPT !.err = @ + 2]

\* updateJob resumed after `await jobService.updateJob(jobId, jobData)`;
\* handleUpdateJob goes on to refreshJobs whatever updateJob returned
UpdateJobResolved(o) ==
  /\ o \in ops /\ o.pc = "put"
  /\ IF o.out = "ok"
     THEN /\ jobs' = ReplaceJob(jobs, o.jobId, o.rjobs[1])
          /\ userJobs' = ReplaceJob(userJobs, o.jobId, o.rjobs[1])
          /\ filteredJobs' = ReplaceJob(filteredJobs, o.jobId, o.rjobs[1])
     ELSE UNCHANGED <<jobs, userJobs, filteredJobs>>
  /\ LET o1 == [UpdateToasts(o) EXCEPT
                  !.step = IF o.out = "ok" THEN "updated" ELSE "updateFailed"]
     IN IF o.via = "profile"
        THEN \E r \in Answers : CallRefresh(o, o1, r)
        ELSE Complete(o, o1) /\ UNCHANGED loading
  /\ UNCHANGED <<popularJobs, savedJobs, currentUser, storageFull, cache, clock, opCount,
                 srvJobs, srvSeq, srvCreated>>

\* -------------------------------------------------------------- deleteJob
SrvDelete(id) == SelectSeq(srvJobs, LAMBDA job : job.id # id)

\* deleteJob(jobId) up to its first await
DeleteJob(jobId, via) ==
  /\ CanDispatch
  /\ MayCall(jobId, via)
  /\ opCount' = opCount + 1
  /\ \E r \in Answers :
       /\ r = "ok" => jobId \in Ids(srvJobs)
       /\ srvJobs' = IF r = "ok" THEN SrvDelete(jobId) ELSE srvJobs
       /\ LET o == [NewOp("deleteJob", via) EXCEPT
                      !.step = "deleteJob", !.pc = "del", !.jobId = jobId,
                      !.out = r, !.req = 1]
          IN ops' = ops \cup {o} /\ last' = o
  /\ UNCHANGED <<jobs, userJobs, filteredJobs, popularJobs, savedJobs, loading,
                 currentUser, storageFull, cache, clock, srvSeq, srvCreated>>

\* deleteJob with setFilteredJobs forgotten
DeleteJobResolvedStaleFiltered(o) ==
  /\ o \in ops /\ o.pc = "del"
  /\ IF o.out = "ok"
     THEN /\ jobs' = RemoveJob(jobs, o.jobId)
          /\ userJobs' = RemoveJob(userJobs, o.jobId)
          /\ LET o1 == [o EXCEPT !.step = "deleted", !.ok = @ + 2]
             IN IF o.via = "profile"
                THEN \E r \in Answers : CallRefresh(o, o1, r)
                ELSE Complete(o, o1) /\ UNCHANGED loading
     ELSE /\ Complete(o, [o EXCEPT !.step = "deleteFailed",
                            !.err = @ + (IF o.out = "nosuccess" THEN 1 ELSE 2)])
          /\ UNCHANGED <<jobs, userJobs, loading>>
  /\ UNCHANGED <<filteredJobs, popularJobs, savedJobs, currentUser, storageFull,
                 cache, clock, opCount, srvJobs, srvSeq, srvCreated>>

\* deleteJob with the returned boolean not looked at
DeleteJobResolvedIgnoringResult(o) ==
  /\ o \in ops /\ o.pc = "del"
  /\ jobs' = RemoveJob(jobs, o.jobId)
  /\ userJobs' = RemoveJob(userJobs, o.jobId)
  /\ filteredJobs' = RemoveJob(filteredJobs, o.jobId)
  /\ IF o.out = "ok"
     THEN LET o1 == [o EXCEPT !.step = "deleted", !.ok = @ + 2]
          IN IF o.via = "profile"
             THEN \E r \in Answers : CallRefresh(o, o1, r)
             ELSE Complete(o, o1) /\ UNCHANGED loading
     ELSE /\ Complete(o, [o EXCEPT !.step = "deleteFailed",
                            !.err = @ + (IF o.out = "nosuccess" THEN 1 ELSE 2)])
          /\ UNCHANGED loading
  /\ UNCHANGED <<popularJobs, savedJobs, currentUser, storageFull, cache, clock,
                 opCount, srvJobs, srvSeq, srvCreated>>

\* deleteJob resumed after `await jobService.deleteJob(jobId)`;
\* handleDeleteJob refreshes only when deleteJob returned true
DeleteJobResolved(o) ==
  /\ o \in ops /\ o.pc = "del"
  /\ IF o.out = "ok"
     THEN /\ jobs' = RemoveJob(jobs, o.jobId)
          /\ userJobs' = RemoveJob(userJobs, o.jobId)
          /\ filteredJobs' = RemoveJob(filteredJobs, o.jobId)
          /\ LET o1 == [o EXCEPT !.step = "deleted", !.ok = @ + 2]
             IN IF o.via = "profile"
                THEN \E r \in Answers : CallRefresh(o, o1, r)
                ELSE Complete(o, o1) /\ UNCHANGED loading
     ELSE /\ Complete(o, [o EXCEPT !.step = "deleteFailed",
                            !.err = @ + (IF o.out = "nosuccess" THEN 1 ELSE 2)])
          /\ UNCHANGED <<jobs, userJobs, filteredJobs, loading>>
  /\ UNCHANGED <<popularJobs, savedJobs, currentUser, storageFull, cache, clock, opCount,
                 srvJobs, srvSeq, srvCreated>>

\* ------------------------------------------------------------- addComment
CommentIdsOf(js, jobId) ==
  UNION {Ids(CommentsOrEmpty(js[i])) : i \in {k \in DOMAIN js : js[k].id = jobId}}

AllCommentIds(js) == UNION {Ids(CommentsOrEmpty(js[i])) : i \in DOMAIN js}

\* the backend appends the comment to the job it stores
SrvAddComment(jobId, c) ==
  [i \in DOMAIN srvJobs |->
    IF srvJobs[i].id = jobId
    THEN [srvJobs[i] EXCEPT !.comments = Append(@, c)]
    ELSE srvJobs[i]]

\* addComment with the guard on currentUser left out
AddCommentUnguarded(jobId, text) ==
  /\ CanDispatch
  /\ opCount' = opCount + 1
  /\ LET o0 == [NewOp("addComment", "store") EXCEPT
                  !.step = "addComment", !.jobId = jobId, !.text = text]
     IN \E t \in NowChoices, r \in Answers :
          /\ r = "ok" => jobId \in Ids(srvJobs)
          /\ clock' = t
          /\ jobs' = AppendTempComment(jobs, jobId, Comment(TempId(t), text))
          /\ srvSeq' = IF r = "ok" THEN srvSeq + 1 ELSE srvSeq
          /\ srvJobs' = IF r = "ok"
                        THEN SrvAddComment(jobId, Comment(SrvId(srvSeq + 1), text))
                        ELSE srvJobs
          /\ LET o == [o0 EXCEPT
                         !.pc = "postc", !.tmp = TempId(t), !.out = r, !.req = 1,
                         !.rcom = IF r = "ok"
                                  THEN <<Comment(SrvId(srvSeq + 1), text)>>
                                  ELSE <<>>]
             IN ops' = ops \cup {o} /\ last' = o
  /\ UNCHANGED <<userJobs, filteredJobs, popularJobs, savedJobs, loading,
                 currentUser, storageFull, cache, srvCreated>>

\* addComment(jobId, text) up to its first await: the guard on currentUser,
\* the temporary comment, its merge into jobs, and the request
AddComment(jobId, text) ==
  /\ CanDispatch
  /\ opCount' = opCount + 1
  /\ LET o0 == [NewOp("addComment", "store") EXCEPT
                  !.step = "addComment", !.jobId = jobId, !.text = text]
     IN IF currentUser = NoUser
        THEN /\ last' = Finished([o0 EXCEPT !.err = 1])
             /\ UNCHANGED <<jobs, clock, ops, srvJobs, srvSeq>>
        ELSE \E t \in NowChoices, r \in Answers :
               /\ r = "ok" => jobId \in Ids(srvJobs)
               /\ clock' = t
               /\ jobs' = AppendTempComment(jobs, jobId, Comment(TempId(t), text))
               /\ srvSeq' = IF r = "ok" THEN srvSeq + 1 ELSE srvSeq
               /\ srvJobs' = IF r = "ok"
                             THEN SrvAddComment(jobId, Comment(SrvId(srvSeq + 1), text))
                             ELSE srvJobs
               /\ LET o == [o0 EXCEPT
                              !.pc = "postc", !.tmp = TempId(t), !.out = r, !.req = 1,
                              !.rcom = IF r = "ok"
                                       THEN <<Comment(SrvId(srvSeq + 1), text)>>
                                       ELSE <<>>]
                  IN ops' = ops \cup {o} /\ last' = o
  /\ UNCHANGED <<userJobs, filteredJobs, popularJobs, savedJobs, loading,
                 currentUser, storageFull, cache, srvCreated>>

\* jobService.addComment's catch block: a local comment with a uuid, appended
\* to the cached copy of the job when there is a cache and the write succeeds
FallbackCache(jobId, c) ==
  IF cache # <<>> /\ ~storageFull
  THEN <<JsonRoundTrip(AppendTempComment(JsonRoundTrip(cache[1]), jobId, c))>>
  ELSE cache

\* the comment jobService.addComment returns: the backend's, or the fallback
GatewayComment(o) ==
  IF o.out = "ok" THEN o.rcom[1] ELSE Comment(UuidId(o.n), o.text)

\* addComment resumed after `await jobService.addComment(jobId, text)`
AddCommentResolved(o) ==
  /\ o \in ops /\ o.pc = "postc"
  /\ LET comment == GatewayComment(o)
     IN /\ cache' = IF o.out = "ok" THEN cache
                   ELSE FallbackCache(o.jobId, comment)
        /\ jobs' = ReconcileComment(jobs, o.jobId, o.tmp, comment)
        /\ Complete(o, [o EXCEPT !.step = "commented", !.ok = @ + 1,
                                 !.rcom = <<comment>>])
  /\ UNCHANGED <<userJobs, filteredJobs, popularJobs, savedJobs, loading,
                 currentUser, storageFull, clock, opCount, srvJobs, srvSeq, srvCreated>>

\* --------------------------------------------------------------- addReply
SrvAddReply(cid, r) ==
  [i \in DOMAIN srvJobs |->
    [srvJobs[i] EXCEPT !.comments =
       [k \in DOMAIN srvJobs[i].comments |->
         IF srvJobs[i].comments[k].id = cid
         THEN [srvJobs[i].comments[k] EXCEPT !.replies = Append(@, r)]
         ELSE srvJobs[i].comments[k]]]]

\* addReply(commentId, jobId, text) up to its first await
AddReply(cid, jobId, text) ==
  /\ CanDispatch
  /\ cid \in CommentIdsOf(jobs, jobId)
  /\ opCount' = opCount + 1
  /\ LET o0 == [NewOp("addReply", "store") EXCEPT
                  !.step = "addReply", !.jobId = jobId, !.cid = cid, !.text = text]
     IN IF currentUser = NoUser
        THEN /\ last' = Finished([o0 EXCEPT !.err = 1])
             /\ UNCHANGED <<jobs, clock, ops, srvJobs, srvSeq>>
        ELSE \E t \in NowChoices, r \in Answers :
               /\ r = "ok" => cid \in SrvCommentIds
               /\ clock' = t
               /\ jobs' = AppendTempReply(jobs, jobId, cid, Reply(TempReplyId(t), text))
               /\ srvSeq' = IF r = "ok" THEN srvSeq + 1 ELSE srvSeq
               /\ srvJobs' = IF r = "ok"
                             THEN SrvAddReply(cid, Reply(SrvId(srvSeq + 1), text))
                             ELSE srvJobs
               /\ LET o == [o0 EXCEPT
                              !.pc = "postr", !.tmp = TempReplyId(t), !.out = r,
                              !.req = 1,
                              !.rrep = IF r = "ok"
                                       THEN <<Reply(SrvId(srvSeq + 1), text)>>
                                       ELSE <<>>]
                  IN ops' = ops \cup {o} /\ last' = o
  /\ UNCHANGED <<userJobs, filteredJobs, popularJobs, savedJobs, loading,
                 currentUser, storageFull, cache, srvCreated>>

\* the reply jobService.addReply returns: the backend's, or the fallback
GatewayReply(o) ==
  IF o.out = "ok" THEN o.rrep[1] ELSE Reply(UuidId(o.n), o.text)

\* addReply resumed after `await jobService.addReply(commentId, text)`
AddReplyResolved(o) ==
  /\ o \in ops /\ o.pc = "postr"
  /\ jobs' = ReconcileReply(jobs, o.jobId, o.cid, o.tmp, GatewayReply(o))
  /\ Complete(o, [o EXCEPT !.step = "replied", !.ok = @ + 1,
                           !.rrep = <<GatewayReply(o)>>])
  /\ UNCHANGED <<userJobs, filteredJobs, popularJobs, savedJobs, loading,
                 currentUser, storageFull, cache, clock, opCount, srvJobs, srvSeq, srvCreated>>

\* ---------------------------------------------------------- deleteComment
SrvRemoveComment(cid) ==
  [i \in DOMAIN srvJobs |->
    [srvJobs[i] EXCEPT !.comments = SelectSeq(@, LAMBDA c : c.id # cid)]]

\* deleteComment(commentId) up to its first await
DeleteComment(cid) ==
  /\ CanDispatch
  /\ cid \in AllCommentIds(jobs)
  /\ opCount' = opCount + 1
  /\ \E r \in Answers :
       /\ r = "ok" => cid \in SrvCommentIds
       /\ srvJobs' = IF r = "ok" THEN SrvRemoveComment(cid) ELSE srvJobs
       /\ LET o == [NewOp("deleteComment", "store") EXCEPT
                      !.step = "deleteComment", !.pc = "delc", !.cid = cid,
                      !.out = r, !.req = 1]
          IN ops' = ops \cup {o} /\ last' = o
  /\ UNCHANGED <<jobs, userJobs, filteredJobs, popularJobs, savedJobs, loading,
                 currentUser, storageFull, cache, clock, srvSeq, srvCreated>>

\* deleteComment resumed after `await jobService.deleteComment(commentId)`:
\* the boolean the gateway returns is not looked at
DeleteCommentResolved(o) ==
  /\ o \in ops /\ o.pc = "delc"
  /\ IF o.out = "throw"
     THEN /\ Complete(o, [o EXCEPT !.step = "deleteCommentFailed", !.err = @ + 1])
          /\ UNCHANGED jobs
     ELSE /\ jobs' = RemoveComment(jobs, o.cid)
          /\ Complete(o, [o EXCEPT !.step = "commentDeleted", !.ok = @ + 1])
  /\ UNCHANGED <<userJobs, filteredJobs, popularJobs, savedJobs, loading,
                 currentUser, storageFull, cache, clock, opCount, srvJobs, srvSeq, srvCreated>>

\* ----------------------------------------------------- saveJob, unsaveJob
\* saveJob that puts the first listed job in savedJobs
SaveJobStoring ==
  /\ CanDispatch
  /\ opCount' = opCount + 1
  /\ savedJobs' = Slice(jobs, 1)
  /\ last' = Finished([NewOp("saveJob", "store") EXCEPT
                         !.step = "saveJob", !.info = 1])
  /\ UNCHANGED <<jobs, userJobs, filteredJobs, popularJobs, loading,
                 currentUser, storageFull, cache, clock, ops, srvJobs, srvSeq,
                 srvCreated>>

\* saveJob(jobId): the argument is not read, no request is made, one
\* informational toast
SaveJob ==
  /\ CanDispatch
  /\ opCount' = opCount + 1
  /\ last' = Finished([NewOp("saveJob", "store") EXCEPT
                         !.step = "saveJob", !.info = 1])
  /\ UNCHANGED <<jobs, userJobs, filteredJobs, popularJobs, savedJobs, loading,
                 currentUser, storageFull, cache, clock, ops, srvJobs, srvSeq,
                 srvCreated>>

\* unsaveJob(jobId): the same with its own text
UnsaveJob ==
  /\ CanDispatch
  /\ opCount' = opCount + 1
  /\ last' = Finished([NewOp("unsaveJob", "store") EXCEPT
                         !.step = "unsaveJob", !.info = 1])
  /\ UNCHANGED <<jobs, userJobs, filteredJobs, popularJobs, savedJobs, loading,
                 currentUser, storageFull, cache, clock, ops, srvJobs, srvSeq,
                 srvCreated>>

\* ------------------------------------------------- the currentUser effect
\* useAuth() gives another currentUser (login or logout): the provider
\* renders again and the effect on [currentUser] calls refreshJobs, whose
\* closure holds the new user
CurrentUserChanged(u) ==
  /\ CanDispatch
  /\ u # currentUser
  /\ currentUser' = u
  /\ \E r \in Answers :
       LET o == IssueGet([NewOp("refresh", "store") EXCEPT
                            !.user = u, !.step = "refresh", !.pc = "fetch1"], r)
       IN /\ ops' = ops \cup {o}
          /\ last' = o
  /\ loading' = TRUE
  /\ opCount' = opCount + 1
  /\ UNCHANGED <<jobs, userJobs, filteredJobs, popularJobs, savedJobs,
                 storageFull, cache, clock, srvJobs, srvSeq, srvCreated>>

\* ------------------------------------------------------------------- Next
Next ==
  \/ RefreshJobs
  \/ \E o \in ops : RefreshFetched(o)
  \/ \E o \in ops : RefreshUserFetched(o)
  \/ \E d \in JobDatas : CreateJob(d)
  \/ \E o \in ops : CreateJobResolved(o)
  \/ \E id \in TargetIds, via \in {"store", "profile"} : UpdateJob(id, via)
  \/ \E o \in ops : UpdateJobResolved(o)
  \/ \E id \in TargetIds, via \in {"store", "profile"} : DeleteJob(id, via)
  \/ \E o \in ops : DeleteJobResolved(o)
  \/ \E id \in TargetIds, t \in Texts : AddComment(id, t)
  \/ \E o \in ops : AddCommentResolved(o)
  \/ \E id \in TargetIds, t \in Texts : \E c \in CommentIdsOf(jobs, id) :
       AddReply(c, id, t)
  \/ \E o \in ops : AddReplyResolved(o)
  \/ \E c \in AllCommentIds(jobs) : DeleteComment(c)
  \/ \E o \in ops : DeleteCommentResolved(o)
  \/ SaveJob
  \/ UnsaveJob
  \/ \E u \in InitUsers : CurrentUserChanged(u)

Spec == Init /\ [][Next]_vars

\* ================================================================= claims
CommentsIn(js, jobId) ==
  UNION {{CommentsOrEmpty(js[i])} : i \in {k \in DOMAIN js : js[k].id = jobId}}

HasComment(js, jobId, cid) == cid \in CommentIdsOf(js, jobId)

CountId(cs, cid) == Cardinality({i \in DOMAIN cs : cs[i].id = cid})

MutationKinds ==
  {"createJob", "updateJob", "deleteJob", "addComment", "addReply", "deleteComment"}

\* C1: when the request of addComment fails, the temporary comment that was in
\* the job's comment sequence is still there once addComment has completed.
C1_TempCommentKeptOnFailure ==
  [][(/\ last'.step = "commented"
      /\ last'.out # "ok"
      /\ HasComment(jobs, last'.jobId, last'.tmp))
     => HasComment(jobs', last'.jobId, last'.tmp)]_vars

\* C2: when the request of addComment succeeds, the job's comment sequence
\* holds, once addComment has completed, exactly one comment with the
\* identifier the backend assigned, none with the call's temporary identifier,
\* and the backend's comment carries the submitted text.
C2_ExactlyOneServerComment ==
  (last.step = "commented" /\ last.out = "ok") =>
    \A cs \in CommentsIn(jobs, last.jobId) :
      /\ CountId(cs, last.rcom[1].id) = 1
      /\ CountId(cs, last.tmp) = 0
      /\ \A i \in DOMAIN cs : cs[i].id = last.rcom[1].id => cs[i].text = last.text

\* C3: from the dispatch of addComment to the resolution of its request the
\* canonical copy of the job holds the temporary comment: the dispatch puts it
\* there when the job is listed, and no step taken while the request is in
\* flight leaves the job listed without it.
C3_TempCommentVisibleWhileInFlight ==
  [][/\ (last'.step = "addComment" /\ last'.pc = "postc"
           /\ last'.jobId \in Ids(jobs))
        => HasComment(jobs', last'.jobId, last'.tmp)
     /\ \A o \in ops \cap ops' :
          (o.pc = "postc" /\ HasComment(jobs, o.jobId, o.tmp)
             /\ o.jobId \in Ids(jobs'))
          => HasComment(jobs', o.jobId, o.tmp)]_vars

\* C4: a comment submitted while the backend is unreachable ends with exactly
\* one failure notification and no success notification.
C4_OneFailureToastWhenOffline ==
  (last.step = "commented" /\ last.out = "throw") => (last.err = 1 /\ last.ok = 0)

\* C5: once a mutation has completed and nothing is in flight, popularJobs is
\* the first three jobs of the canonical list (all of them when fewer).
C5_PopularIsFirstThree ==
  (ops = {} /\ last.pc = "done") => IdSeq(popularJobs) = IdSeq(Slice(jobs, 3))

\* C6: the step of deleteJob that follows a successful gateway call removes
\* the job from jobs, userJobs and filteredJobs together and keeps the other
\* jobs of each list in their order.
WithoutJob(before, id) == SelectSeq(before, LAMBDA job : job.id # id)

C6_DeleteRemovesFromAllLists ==
  [][last'.step = "deleted" =>
       /\ jobs' = WithoutJob(jobs, last'.jobId)
       /\ userJobs' = WithoutJob(userJobs, last'.jobId)
       /\ filteredJobs' = WithoutJob(filteredJobs, last'.jobId)
       /\ last'.jobId \notin Ids(jobs') \cup Ids(userJobs') \cup Ids(filteredJobs')]_vars

C6_Witness ==
  /\ last.step = "deleted" /\ last.jobId = "A"
  /\ IdSeq(jobs) = <<"B", "C", "D">>
  /\ IdSeq(filteredJobs) = <<"B", "C", "D">>
  /\ IdSeq(userJobs) = <<"C">>

\* C7: every job of the canonical list has a comment sequence, never an
\* absent one.
C7_CommentsNeverAbsent == \A i \in DOMAIN jobs : jobs[i].cpresent

\* C8: a createJob whose title, description or category is missing, or whose
\* budget is undefined, fails at once with failure notifications and issues
\* no request; no createJob in flight carries such data.
MissingField(d) ==
  d.title = "undef" \/ d.description = "undef" \/ d.category = "undef"
    \/ d.budget = <<>>

C8_IncompleteCreateIssuesNoRequest ==
  /\ (last.kind = "createJob" /\ MissingField(last.data)) =>
       (last.pc = "done" /\ last.req = 0 /\ last.err >= 1 /\ last.ok = 0)
  /\ \A o \in ops : o.kind = "createJob" => ~MissingField(o.data)

C8_Witness ==
  /\ last.kind = "createJob" /\ last.pc = "done" /\ last.req = 0
  /\ last.data.title = "t" /\ last.data.description = "d"
  /\ last.data.budget = <<>>

\* C9: every mutation that has completed raised exactly one notification.
C9_ExactlyOneNotification ==
  (last.pc = "done" /\ last.kind \in MutationKinds) => last.ok + last.err = 1

\* C10: the steps of createJob, updateJob and deleteJob whose gateway call
\* failed, and the steps that dispatch them, leave jobs, userJobs,
\* filteredJobs, popularJobs and savedJobs as they were.
C10_FailedJobMutationChangesNothing ==
  [][(\/ last'.step \in {"createJob", "updateJob", "deleteJob"}
      \/ last'.step \in {"createFailed", "updateFailed", "deleteFailed"})
     => views' = views]_vars

C10_Witness ==
  /\ last.step = "deleteFailed" /\ last.out = "nosuccess"
  /\ last.jobId \in Ids(jobs) /\ last.jobId \in Ids(filteredJobs)
  /\ Len(jobs) = 4

\* C11: once a createJob whose gateway call succeeded has completed (its
\* follow-up refresh included, whatever that fetch answered), the created job
\* is in the canonical list.
C11_CreatedJobInCanonicalList ==
  (/\ last.kind = "createJob" /\ last.pc = "done"
   /\ last.step \in {"fetched", "userFetched"})
  => last.jobId \in Ids(jobs)

\* C12: right after addComment, addReply or deleteComment has changed the
\* canonical list, every copy of a job it touched that userJobs, filteredJobs
\* or popularJobs holds has the comment sequence of the canonical copy.
Touched(o, id) == o.kind = "deleteComment" \/ id = o.jobId

SameCommentsAsCanonical(view, o) ==
  \A i \in DOMAIN view, j \in DOMAIN jobs :
    (view[i].id = jobs[j].id /\ Touched(o, view[i].id))
    => CommentsOrEmpty(view[i]) = CommentsOrEmpty(jobs[j])

C12_MergeReachesDerivedViews ==
  (\/ last.step \in {"addComment", "addReply"} /\ last.pc # "done"
   \/ last.step \in {"commented", "replied", "commentDeleted"})
  => /\ SameCommentsAsCanonical(userJobs, last)
     /\ SameCommentsAsCanonical(filteredJobs, last)
     /\ SameCommentsAsCanonical(popularJobs, last)

\* C13: deleteComment changes the canonical list only in the step that follows
\* a successful answer of the gateway, and that step leaves the comment in no
\* job; the dispatch and the steps that follow a throw or an answer without
\* success leave every job as it was.
C13_CommentRemovedOnlyOnConfirmation ==
  [][last'.kind = "deleteComment" =>
       IF last'.pc = "done" /\ last'.out = "ok"
       THEN last'.cid \notin AllCommentIds(jobs')
       ELSE jobs' = jobs]_vars

\* C14: when the request of addReply succeeds, the reply sequence of the
\* addressed comment in the addressed job holds, once addReply has completed,
\* exactly one reply with the identifier the backend assigned and none with
\* the call's temporary identifier.
RepliesIn(js, jobId, cid) ==
  UNION {{cs[k].replies : k \in {x \in DOMAIN cs : cs[x].id = cid}} :
           cs \in CommentsIn(js, jobId)}

HasReply(js, jobId, cid, rid) ==
  \E rs \in RepliesIn(js, jobId, cid) : CountId(rs, rid) > 0

C14_ExactlyOneServerReply ==
  (last.step = "replied" /\ last.out = "ok") =>
    \A rs \in RepliesIn(jobs, last.jobId, last.cid) :
      CountId(rs, last.rrep[1].id) = 1 /\ CountId(rs, last.tmp) = 0

\* C15: when the request of addReply fails, the temporary reply that was in
\* the addressed comment's reply sequence is still there once addReply has
\* completed, and the call raised a failure notification and no success one.
C15_TempReplyKeptOnFailure ==
  [][(/\ last'.step = "replied"
      /\ last'.out # "ok"
      /\ HasReply(jobs, last'.jobId, last'.cid, last'.tmp))
     => /\ HasReply(jobs', last'.jobId, last'.cid, last'.tmp)
        /\ last'.err >= 1 /\ last'.ok = 0]_vars

\* C16: the cached snapshot is written only by a job-list fetch that
\* succeeded: a step that changes it is a step of refreshJobs resumed after
\* such a fetch, and it leaves the list that fetch returned in the slot.
FetchSteps == {"fetched", "userFetched"}

C16_CacheWrittenOnlyByFetch ==
  [][cache' # cache =>
       \E o \in ops :
         /\ o.n = last'.n /\ last'.step \in FetchSteps
         /\ o.out = "ok"
         /\ cache' = <<GetAllJobs(o.out, o.rjobs).jobs>>]_vars

\* C17: when the job-list fetch of refreshJobs fails, the canonical list and
\* the filtered list become the cached snapshot when there is one and the
\* empty list otherwise.
SnapshotOrEmpty == IF cache # <<>> THEN cache[1] ELSE <<>>

C17_FailedFetchFallsBackToSnapshot ==
  [][(last'.step = "fetched" /\ last'.got # "ok")
     => /\ jobs' = SnapshotOrEmpty
        /\ filteredJobs' = SnapshotOrEmpty
        /\ cache' = cache]_vars

C17_Witness ==
  /\ last.step = "fetched" /\ last.got \in {"throw", "nosuccess"}
  /\ cache # <<>>
  /\ jobs = cache[1] /\ Len(jobs) >= 4

\* C18: savedJobs is empty after every step, and a step of saveJob or
\* unsaveJob changes none of the five lists, puts no call in flight, issues no
\* request and raises one informational notification and no other.
SaveKinds == {"saveJob", "unsaveJob"}

C18_SaveUnsaveAreNoOps ==
  [][/\ savedJobs' = <<>>
     /\ last'.kind \in SaveKinds =>
          /\ views' = views
          /\ ops' = ops
          /\ last'.pc = "done" /\ last'.req = 0
          /\ last'.info = 1 /\ last'.ok = 0 /\ last'.err = 0]_vars

C18_Witness ==
  /\ last.kind = "unsaveJob" /\ last.info = 1
  /\ Len(jobs) = 4 /\ savedJobs = <<>> /\ opCount = 2

\* C19: when the request of addComment succeeds, the comment the backend
\* returned stands, after the reconciliation, at the index the temporary
\* comment (the one comment with the call's temporary identifier) had just
\* before it.
C19_ReconciledCommentKeepsPosition ==
  [][(last'.step = "commented" /\ last'.out = "ok") =>
       \A i \in DOMAIN jobs :
         (jobs[i].id = last'.jobId
            /\ CountId(CommentsOrEmpty(jobs[i]), last'.tmp) = 1) =>
           \A k \in DOMAIN CommentsOrEmpty(jobs[i]) :
             jobs[i].comments[k].id = last'.tmp =>
               /\ k \in DOMAIN jobs'[i].comments
               /\ jobs'[i].comments[k].id = last'.rcom[1].id]_vars

\* C20: of two addComment calls of one user on one job, the comment of the
\* call issued first precedes the comment of the call issued second whenever
\* both are in the job's comment sequence: here with the first call completed
\* (its comment confirmed) and the second still in flight (its comment
\* temporary).
C20_CommentsKeepIssuanceOrder ==
  (last.step = "commented" /\ last.pc = "done") =>
    \A o \in ops :
      (/\ o.kind = "addComment" /\ o.pc = "postc"
       /\ o.jobId = last.jobId /\ o.user = last.user /\ o.n > last.n
       /\ o.tmp # last.tmp)
      => \A cs \in CommentsIn(jobs, last.jobId) :
           \A i, j \in DOMAIN cs :
             (cs[i].id = last.rcom[1].id /\ cs[j].id = o.tmp) => i < j

\* C21: any two addComment calls fabricate different temporary comment
\* identifiers, and any two addReply calls different temporary reply
\* identifiers: no two calls in flight carry the same one.
C21_TemporaryIdsUnique ==
  \A o1, o2 \in ops :
    (/\ o1.n # o2.n
     /\ o1.kind \in {"addComment", "addReply"} /\ o2.kind = o1.kind)
    => o1.tmp # o2.tmp

\* C22: the reconciliation of one addComment leaves the temporary comment of
\* every other addComment in flight on the same job in the job's comment
\* sequence.
C22_ReconciliationKeepsOtherPending ==
  [][last'.step = "commented" =>
       \A o \in ops' :
         (/\ o.kind = "addComment" /\ o.pc = "postc"
          /\ o.jobId = last'.jobId
          /\ HasComment(jobs, o.jobId, o.tmp))
         => HasComment(jobs', o.jobId, o.tmp)]_vars

\* C23: a comment that addComment put in a job (temporary, confirmed or
\* fabricated by the gateway's fallback) is not lost to a step of refreshJobs,
\* updateJob or createJob: the job still holds a comment with that text after
\* the step.
AuthoredTexts(js, jobId) ==
  UNION {{cs[k].text : k \in {x \in DOMAIN cs : cs[x].id # SrvId(0)}} :
           cs \in CommentsIn(js, jobId)}

C23_AuthoredTextNeverDiscarded ==
  [][last'.kind \in {"refresh", "updateJob", "createJob"} =>
       \A id \in TargetIds : AuthoredTexts(jobs, id) \subseteq AuthoredTexts(jobs', id)]_vars

\* C24: when a refreshJobs of a logged-in user has completed, userJobs is the
\* sub-sequence of the canonical list owned by that user, in the same order.
C24_UserJobsIsFilterOfCanonical ==
  (/\ last.kind = "refresh" /\ last.step = "userFetched" /\ last.pc = "done")
  => IdSeq(userJobs) = IdSeq(JobsOfUser(jobs, last.user))

\* C26: no comment sequence of the canonical list holds two comments with the
\* same identifier (identifiers given by the backend or the gateway; the
\* temporary ones are the matter of C21).
C26_NoDuplicateCommentIds ==
  \A i \in DOMAIN jobs :
    \A k \in DOMAIN CommentsOrEmpty(jobs[i]) :
      ~isTemporary(jobs[i].comments[k].id)
      => CountId(jobs[i].comments, jobs[i].comments[k].id) = 1

\* C27: a job that was listed (the snapshot of an earlier fetch holds it),
\* that the backend has deleted and that deleteJob has removed from the lists
\* is not brought back by the answer of a fetch: a successful answer that
\* still lists the job was given before the deletion.
Deleted(id) ==
  /\ id \in Ids(InitSrvJobs) /\ id \notin Ids(srvJobs)
  /\ \A o \in ops : ~(o.kind = "deleteJob" /\ o.jobId = id /\ o.pc = "del")

C27_DeletedJobNotResurrected ==
  [][\A o \in ops :
       (/\ o.pc = "fetch1" /\ o.out = "ok"
        /\ last'.n = o.n /\ last'.step = "fetched")
       => \A id \in TargetIds :
            (/\ Deleted(id) /\ id \notin Ids(jobs)
             /\ cache # <<>> /\ id \in Ids(cache[1]))
            => id \notin Ids(jobs')]_vars

\* C28: of two overlapping refreshJobs calls, the answer of the one issued
\* first does not replace the canonical list that the one issued second has
\* already set from a successful fetch.
C28_OlderRefreshNeverOverwrites ==
  [][\A o, o2 \in ops :
       (/\ o.kind = "refresh" /\ o2.kind = "refresh" /\ o.n < o2.n
        /\ o.pc = "fetch1" /\ o2.pc = "fetch2" /\ o2.got = "ok"
        /\ jobs = o2.allJobs
        /\ last'.n = o.n /\ last'.step = "fetched")
       => jobs' = jobs]_vars

\* C29: when the refresh started for the present currentUser has completed,
\* userJobs holds only jobs owned by that user, and none when there is no
\* user.
C29_UserJobsOwnedByCurrentUser ==
  (last.kind = "refresh" /\ last.pc = "done" /\ last.user = currentUser)
  => \A i \in DOMAIN userJobs : userJobs[i].userId = currentUser

\* C30: addComment and addReply called with no current user change none of
\* the five lists, put no call in flight, issue no request, raise exactly one
\* failure notification and return no entity.
C30_NoUserWriteRejected ==
  [][(last'.kind \in {"addComment", "addReply"} /\ last'.user = NoUser) =>
       /\ views' = views
       /\ ops' = ops
       /\ last'.pc = "done" /\ last'.req = 0
       /\ last'.err = 1 /\ last'.ok = 0 /\ last'.info = 0
       /\ last'.rcom = <<>> /\ last'.rrep = <<>>]_vars

C30_Witness ==
  /\ last.kind = "addReply" /\ last.user = NoUser /\ last.err = 1
  /\ last.cid = SrvId(0) /\ Len(jobs) = 4

\* ------------------------------------------------------------- completion
\* The runtime resumes an awaiting call once its request has been answered;
\* every request in flight has its answer, so each continuation is taken.
\* Completion is checked over the runs that dispatch at most MaxLiveOps
\* operations after the mount refresh.
MaxLiveOps == 1

LiveBound == opCount' <= MaxLiveOps

LiveNext ==
  \/ RefreshJobs /\ LiveBound
  \/ \E o \in ops : RefreshFetched(o)
  \/ \E o \in ops : RefreshUserFetched(o)
  \/ \E d \in JobDatas : CreateJob(d) /\ LiveBound
  \/ \E o \in ops : CreateJobResolved(o)
  \/ \E id \in TargetIds, via \in {"store", "profile"} :
       UpdateJob(id, via) /\ LiveBound
  \/ \E o \in ops : UpdateJobResolved(o)
  \/ \E id \in TargetIds, via \in {"store", "profile"} :
       DeleteJob(id, via) /\ LiveBound
  \/ \E o \in ops : DeleteJobResolved(o)
  \/ \E id \in TargetIds, t \in Texts : AddComment(id, t) /\ LiveBound
  \/ \E o \in ops : AddCommentResolved(o)
  \/ \E id \in TargetIds, t \in Texts : \E c \in CommentIdsOf(jobs, id) :
       AddReply(c, id, t) /\ LiveBound
  \/ \E o \in ops : AddReplyResolved(o)
  \/ \E c \in AllCommentIds(jobs) : DeleteComment(c) /\ LiveBound
  \/ \E o \in ops : DeleteCommentResolved(o)
  \/ SaveJob /\ LiveBound
  \/ UnsaveJob /\ LiveBound
  \/ \E u \in InitUsers : CurrentUserChanged(u) /\ LiveBound

LiveSpec ==
  /\ Init /\ [][LiveNext]_vars
  /\ WF_vars(\E o \in ops : RefreshFetched(o))
  /\ WF_vars(\E o \in ops : RefreshUserFetched(o))
  /\ WF_vars(\E o \in ops : CreateJobResolved(o))
  /\ WF_vars(\E o \in ops : UpdateJobResolved(o))
  /\ WF_vars(\E o \in ops : DeleteJobResolved(o))
  /\ WF_vars(\E o \in ops : AddCommentResolved(o))
  /\ WF_vars(\E o \in ops : AddReplyResolved(o))
  /\ WF_vars(\E o \in ops : DeleteCommentResolved(o))

\* C25: every call in flight eventually completes, and a call leaves the set
\* of calls in flight only by the step in which it completes itself.
InFlight(n) == \E o \in ops : o.n = n

C25_EveryCallCompletes ==
  /\ \A n \in 0..MaxOps : InFlight(n) ~> ~InFlight(n)
  /\ [][\A n \in 0..MaxOps :
          (InFlight(n) /\ ~InFlight(n)') => (last'.n = n /\ last'.pc = "done")]_vars

C25_Witness ==
  /\ ops = {} /\ opCount = MaxLiveOps
  /\ last.kind = "createJob" /\ last.step = "userFetched" /\ last.pc = "done"

====
